---- MODULE Spec2Model ----
(***************************************************************************)
(* The claim-signing endpoint of dreamplay-claim-portal                    *)
(* (netlify/functions/sign-claim.js, ethers v5, and its ethers v6 twin).   *)
(* One invocation of exports.handler is modelled as a state machine whose  *)
(* steps are the segments of the handler between two awaited calls to the  *)
(* chain node.  JavaScript values are tagged records, strings are tuples   *)
(* of one-character strings, so that Number(), String(), trim() and        *)
(* toLowerCase() are computed and not assumed.                             *)
(***************************************************************************)
EXTENDS Integers, Sequences, FiniteSets

VARIABLES
    pc,          \* position of the invocation: idle, receipt, name, network, done
    method,      \* event.httpMethod
    body,        \* JSON.parse(event.body): orderId, txHash, to, tier, tokenURI
    cfg,         \* the optional process.env values the handler has read
    receipt,     \* what provider.getTransactionReceipt(txHash) returned
    buyer,       \* let buyer (null until a Purchased event is parsed)
    skuId,       \* let skuId (null until a Purchased event is parsed)
    tier,        \* let tier (reassigned by the tier mapping)
    orderId,     \* let orderId (reassigned to txHash after verification)
    tokenName,   \* let tokenName
    versions,    \* const versions
    layouts,     \* const layouts, as the sequence of their includeTokenURI flags
    attempts,    \* every call of wallet._signTypedData, in call order
    netCalls,    \* every call made to the chain node, in call order
    response     \* what the handler returned

vars == <<pc, method, body, cfg, receipt, buyer, skuId, tier, orderId,
          tokenName, versions, layouts, attempts, netCalls, response>>

----------------------------------------------------------------------------
(* Bounds of the model *)

\* the longest list of logs a receipt carries
MaxLogs == 2

\* the largest skuId a Purchased event carries, besides the two uint8 edges
MaxSku == 1

----------------------------------------------------------------------------
(* JavaScript values *)

Undef  == [t |-> "undef", s |-> <<>>, n |-> 0]
Null   == [t |-> "null",  s |-> <<>>, n |-> 0]
NaN    == [t |-> "nan",   s |-> <<>>, n |-> 0]
Str(s) == [t |-> "str",   s |-> s,    n |-> 0]
Num(n) == [t |-> "num",   s |-> <<>>, n |-> n]

\* ToBoolean: undefined, null, NaN, 0 and "" are falsy
Truthy(v) ==
    CASE v.t = "str" -> v.s # <<>>
      [] v.t = "num" -> v.n # 0
      [] OTHER       -> FALSE

Digits == <<"0", "1", "2", "3", "4", "5", "6", "7", "8", "9">>

IsDigit(c) == \E d \in 1..10 : Digits[d] = c

DigitValue(c) == (CHOOSE d \in 1..10 : Digits[d] = c) - 1

RECURSIVE DropLeadingSpace(_)
DropLeadingSpace(s) ==
    IF s # <<>> /\ Head(s) = " " THEN DropLeadingSpace(Tail(s)) ELSE s

RECURSIVE DropTrailingSpace(_)
DropTrailingSpace(s) ==
    IF s # <<>> /\ s[Len(s)] = " "
    THEN DropTrailingSpace(SubSeq(s, 1, Len(s) - 1))
    ELSE s

\* String.prototype.trim
Trim(s) == DropTrailingSpace(DropLeadingSpace(s))

RECURSIVE DecimalValue(_)
DecimalValue(s) ==
    IF s = <<>> THEN 0
    ELSE 10 * DecimalValue(SubSeq(s, 1, Len(s) - 1)) + DigitValue(s[Len(s)])

AllDigits(s) == s # <<>> /\ \A i \in 1..Len(s) : IsDigit(s[i])

\* StringToNumber: surrounding white space is dropped, "" is 0, an optional
\* sign and decimal digits are a number, anything else is NaN
StringToNumber(s) ==
    LET u == Trim(s) IN
    IF u = <<>> THEN Num(0)
    ELSE IF AllDigits(u) THEN Num(DecimalValue(u))
    ELSE IF Head(u) = "-" /\ AllDigits(Tail(u)) THEN Num(0 - DecimalValue(Tail(u)))
    ELSE NaN

\* Number(v)
Number(v) ==
    CASE v.t = "undef" -> NaN
      [] v.t = "null"  -> Num(0)
      [] v.t = "str"   -> StringToNumber(v.s)
      [] OTHER         -> v

\* Number.isFinite(v)
IsFinite(v) == v.t = "num"

RECURSIVE NatToString(_)
NatToString(n) ==
    IF n < 10 THEN <<Digits[n + 1]>>
    ELSE NatToString(n \div 10) \o <<Digits[(n % 10) + 1]>>

\* String(v)
String(v) ==
    CASE v.t = "str"   -> v.s
      [] v.t = "num"   -> IF v.n < 0 THEN <<"-">> \o NatToString(0 - v.n)
                          ELSE NatToString(v.n)
      [] v.t = "nan"   -> <<"N", "a", "N">>
      [] v.t = "null"  -> <<"n", "u", "l", "l">>
      [] OTHER         -> <<"u", "n", "d", "e", "f", "i", "n", "e", "d">>

LowerChar(c) ==
    CASE c = "A" -> "a"
      [] c = "B" -> "b"
      [] c = "C" -> "c"
      [] c = "D" -> "d"
      [] c = "E" -> "e"
      [] c = "F" -> "f"
      [] c = "X" -> "x"
      [] OTHER   -> c

UpperChar(c) ==
    CASE c = "a" -> "A"
      [] c = "b" -> "B"
      [] c = "c" -> "C"
      [] c = "d" -> "D"
      [] c = "e" -> "E"
      [] c = "f" -> "F"
      [] c = "x" -> "X"
      [] OTHER   -> c

\* String.prototype.toLowerCase
toLowerCase(s) == [i \in 1..Len(s) |-> LowerChar(s[i])]

----------------------------------------------------------------------------
(* Addresses and the digest (ethers) *)

IsHexChar(c) == IsDigit(c) \/ LowerChar(c) \in {"a", "b", "c", "d", "e", "f"}

IsLetter(c) == LowerChar(c) # UpperChar(c)

\* the 40 hex digits of an address text, with or without its 0x prefix
HexPart(s) ==
    IF Len(s) >= 2 /\ s[1] = "0" /\ s[2] = "x" THEN SubSeq(s, 3, Len(s)) ELSE s

\* getChecksumAddress: the mixed-case form of an address.  The real rule
\* upper-cases a letter when the matching nibble of keccak256(lowercase hex)
\* is 8 or more; here the nibbles at odd positions are the ones taken to be
\* 8 or more, which keeps what matters: one mixed-case spelling per address.
getChecksumAddress(s) ==
    LET h == HexPart(s) IN
    <<"0", "x">> \o [i \in 1..Len(h) |->
                        IF i % 2 = 1 THEN UpperChar(h[i]) ELSE LowerChar(h[i])]

HasMixedCase(s) ==
    /\ \E i \in 1..Len(s) : IsLetter(s[i]) /\ s[i] = UpperChar(s[i])
    /\ \E i \in 1..Len(s) : IsLetter(s[i]) /\ s[i] = LowerChar(s[i])

\* isAddress with the checksum of a mixed-case text left unchecked
isAddress_NoChecksum(v) ==
    /\ v.t = "str"
    /\ LET h == HexPart(v.s) IN
       /\ Len(h) = 40
       /\ \A i \in 1..40 : IsHexChar(h[i])

\* ethers.utils.isAddress / ethers.isAddress: /^(0x)?[0-9a-fA-F]{40}$/, and a
\* mixed-case text must be the checksum spelling (ICAP texts are left out)
isAddress(v) ==
    /\ v.t = "str"
    /\ LET h == HexPart(v.s) IN
       /\ Len(h) = 40
       /\ \A i \in 1..40 : IsHexChar(h[i])
       /\ HasMixedCase(h) => getChecksumAddress(v.s) = <<"0", "x">> \o h

\* ethers.utils.id / ethers.id: keccak256 of the UTF-8 text, as a term
id(s) == <<"keccak256", s>>

----------------------------------------------------------------------------
(* The handler's pure parts *)

\* a || b
OrElse(a, b) == IF Truthy(a) THEN a ELSE b

\* a + b on numbers (NaN is absorbing)
Plus(a, b) == IF a.t = "num" /\ b.t = "num" THEN Num(a.n + b.n) ELSE NaN

\* a < b and a <= b on numbers (false when either is NaN)
Less(a, b) == a.t = "num" /\ b.t = "num" /\ a.n < b.n

LessEq(a, b) == a.t = "num" /\ b.t = "num" /\ a.n <= b.n

\* withCors(body, statusCode): the headers do not depend on the request
withCors(b, statusCode) == [statusCode |-> statusCode, body |-> b]

\* the JSON bodies the handler answers with
ErrorBody(msg) ==
    [ok |-> FALSE, error |-> msg, candidates |-> <<>>, buyer |-> Null, skuId |-> Null]

MismatchBody(msg, b) ==
    [ok |-> FALSE, error |-> msg, candidates |-> <<>>, buyer |-> b, skuId |-> Null]

PreflightBody ==
    [ok |-> TRUE, error |-> "", candidates |-> <<>>, buyer |-> Null, skuId |-> Null]

CandidatesBody(cands, b, sku) ==
    [ok |-> FALSE, error |-> "", candidates |-> cands, buyer |-> b, skuId |-> sku]

\* no response yet
NoResponse == withCors(ErrorBody("pending"), 0)

\* no receipt in scope: before the fetch, and after the if (txHash) block
NoReceipt == [exists |-> FALSE, status |-> 0 - 1, logs |-> <<>>]

\* getTransactionReceipt gave null
NullReceipt == [exists |-> FALSE, status |-> 0, logs |-> <<>>]

\* iface.parseLog(lg) with STORE_ABI: a log of another event throws (v5) or
\* gives null (v6); either way the scan goes on
ParsesAsPurchased(lg) == lg.event = "Purchased"

\* the scan of receipt.logs: the index of the first log of STORE_ADDR that
\* parses as Purchased, 0 when there is none
RECURSIVE FindPurchased(_, _, _)
FindPurchased(logs, storeAddr, i) ==
    IF i > Len(logs) THEN 0
    ELSE IF toLowerCase(logs[i].address) # toLowerCase(storeAddr)
         THEN FindPurchased(logs, storeAddr, i + 1)
    ELSE IF ParsesAsPurchased(logs[i]) THEN i
    ELSE FindPurchased(logs, storeAddr, i + 1)

\* the buyer compared with `to` as spelled
WalletMismatch_CaseSensitive(b, to) == b # to

\* buyer.toLowerCase() !== to.toLowerCase()
WalletMismatch(b, to) == toLowerCase(b) # toLowerCase(to)

\* the checks on the receipt without the comparison of buyer and `to`
Verification_NoBuyerCheck(r, storeAddr, to) ==
    IF ~r.exists \/ r.status # 1 THEN "Invalid or failed transaction"
    ELSE IF FindPurchased(r.logs, storeAddr, 1) = 0
         THEN "No Purchased event found for this tx"
    ELSE ""

\* the checks of the if (txHash) block on the receipt: the error the handler
\* returns with status 400, "" when the purchase is verified
Verification(r, storeAddr, to) ==
    IF ~r.exists \/ r.status # 1 THEN "Invalid or failed transaction"
    ELSE LET i == FindPurchased(r.logs, storeAddr, 1) IN
         IF i = 0 THEN "No Purchased event found for this tx"
         ELSE IF WalletMismatch(r.logs[i].buyer, to)
              THEN "Wallet mismatch: tx buyer != connected wallet"
         ELSE ""

\* the caller's orderId kept when there is one
VerifiedOrderId_KeepCallers(txHash, oid) == IF Truthy(oid) THEN oid ELSE txHash

\* orderId = txHash; // unique per purchase
VerifiedOrderId(txHash, oid) == txHash

\* the tier mapping with the minimum applied before the offset
ResolveTier_ClampFirst(tierHint, sku, TIER_OFFSET, MIN_TIER) ==
    LET envOffset == Number(OrElse(TIER_OFFSET, Num(0)))
        minTier   == Number(OrElse(MIN_TIER, Num(1)))
        t0 == Number(tierHint)
        t1 == IF ~IsFinite(t0) \/ LessEq(t0, Num(0)) THEN Number(sku) ELSE t0
        t2 == IF ~IsFinite(t1) THEN Num(1) ELSE t1
        t3 == IF Less(t2, minTier) THEN minTier ELSE t2
    IN  Plus(t3, envOffset)

\* the tier mapping of a verified purchase
ResolveTier(tierHint, sku, TIER_OFFSET, MIN_TIER) ==
    LET envOffset == Number(OrElse(TIER_OFFSET, Num(0)))
        minTier   == Number(OrElse(MIN_TIER, Num(1)))
        t0 == Number(tierHint)
        t1 == IF ~IsFinite(t0) \/ LessEq(t0, Num(0)) THEN Number(sku) ELSE t0
        t2 == IF ~IsFinite(t1) THEN Num(1) ELSE t1
        t3 == Plus(t2, envOffset)
    IN  IF Less(t3, minTier) THEN minTier ELSE t3

\* [..].filter(Boolean)
RECURSIVE FilterBoolean(_)
FilterBoolean(xs) ==
    IF xs = <<>> THEN <<>>
    ELSE IF Truthy(Head(xs)) THEN <<Head(xs)>> \o FilterBoolean(Tail(xs))
    ELSE FilterBoolean(Tail(xs))

\* the list with its duplicates kept
ArrayFromSet_KeepDuplicates(xs, seen) == xs

\* Array.from(new Set(xs)): first occurrences, in order
RECURSIVE ArrayFromSet(_, _)
ArrayFromSet(xs, seen) ==
    IF xs = <<>> THEN <<>>
    ELSE IF Head(xs) \in seen THEN ArrayFromSet(Tail(xs), seen)
    ELSE <<Head(xs)>> \o ArrayFromSet(Tail(xs), seen \cup {Head(xs)})

\* (DOMAIN_VERSION && DOMAIN_VERSION.trim()) || null
EnvVersion(DOMAIN_VERSION) ==
    LET trimmed == IF Truthy(DOMAIN_VERSION) THEN Str(Trim(DOMAIN_VERSION.s))
                   ELSE DOMAIN_VERSION
    IN  OrElse(trimmed, Null)

\* the candidate domain versions, as texts
CandidateVersions(DOMAIN_VERSION) ==
    LET kept == ArrayFromSet(FilterBoolean(<<EnvVersion(DOMAIN_VERSION),
                                             Str(<<"1">>), Str(<<"0">>), Str(<<"2">>)>>), {})
    IN  [i \in 1..Len(kept) |-> kept[i].s]

\* typeof tokenURI === 'string' && tokenURI.length > 0
WithTokenURI(tokenURI) == tokenURI.t = "str" /\ Len(tokenURI.s) > 0

\* the extended layout left out when there is no tokenURI
CandidateLayouts_ShortOnly(tokenURI) ==
    IF WithTokenURI(tokenURI) THEN <<TRUE, FALSE>> ELSE <<FALSE>>

\* the candidate type layouts, each named by its includeTokenURI flag
CandidateLayouts(tokenURI) ==
    IF WithTokenURI(tokenURI) THEN <<TRUE, FALSE>> ELSE <<FALSE, TRUE>>

\* (DOMAIN_NAME && DOMAIN_NAME.trim()) || tokenName
DomainName(DOMAIN_NAME, name) ==
    LET trimmed == IF Truthy(DOMAIN_NAME) THEN Str(Trim(DOMAIN_NAME.s))
                   ELSE DOMAIN_NAME
    IN  OrElse(trimmed, name).s

\* wallet._signTypedData(domain, layout.types, value) returns a signature
\* unless the typed-data encoder throws: tier is encoded as uint8 and must be
\* an integer of 0..255, tokenURI is encoded as string and must be one
SignSucceeds(includeTokenURI, tierNumber, tokenURI) ==
    /\ tierNumber.t = "num"
    /\ tierNumber.n >= 0
    /\ tierNumber.n <= 255
    /\ includeTokenURI => tokenURI.t = "str"

\* the value object of one attempt
ClaimValue(includeTokenURI, to, tierNumber, orderHash, tokenURI) ==
    [to |-> to, tier |-> tierNumber, orderHash |-> orderHash,
     tokenURI |-> IF includeTokenURI THEN tokenURI ELSE Undef]

\* one pass of the inner loop body: the attempt made for (v, layout)
Attempt(v, includeTokenURI, domainName, chainId, to, tierValue, orderHash, tokenURI) ==
    [domainVersion   |-> v,
     includeTokenURI |-> includeTokenURI,
     domainName      |-> domainName,
     chainId         |-> chainId,
     value           |-> ClaimValue(includeTokenURI, to, Number(tierValue), orderHash, tokenURI),
     ok              |-> SignSucceeds(includeTokenURI, Number(tierValue), tokenURI)]

\* the inner loop with a break after the first signature
RECURSIVE LayoutLoop_StopAtFirstSuccess(_, _, _, _, _, _, _, _)
LayoutLoop_StopAtFirstSuccess(v, ls, domainName, chainId, to, tierValue, orderHash, tokenURI) ==
    IF ls = <<>> THEN <<>>
    ELSE LET a == Attempt(v, Head(ls), domainName, chainId, to, tierValue, orderHash, tokenURI)
         IN  IF a.ok THEN <<a>>
             ELSE <<a>> \o LayoutLoop_StopAtFirstSuccess(v, Tail(ls), domainName, chainId,
                                                          to, tierValue, orderHash, tokenURI)

\* for (const layout of layouts) { ... }
RECURSIVE LayoutLoop(_, _, _, _, _, _, _, _)
LayoutLoop(v, ls, domainName, chainId, to, tierValue, orderHash, tokenURI) ==
    IF ls = <<>> THEN <<>>
    ELSE <<Attempt(v, Head(ls), domainName, chainId, to, tierValue, orderHash, tokenURI)>>
         \o LayoutLoop(v, Tail(ls), domainName, chainId, to, tierValue, orderHash, tokenURI)

\* for (const v of versions) { for (const layout of layouts) { ... } }
RECURSIVE VersionLoop(_, _, _, _, _, _, _, _)
VersionLoop(vs, ls, domainName, chainId, to, tierValue, orderHash, tokenURI) ==
    IF vs = <<>> THEN <<>>
    ELSE LayoutLoop(Head(vs), ls, domainName, chainId, to, tierValue, orderHash, tokenURI)
         \o VersionLoop(Tail(vs), ls, domainName, chainId, to, tierValue, orderHash, tokenURI)

\* candidates.push({...}) of one successful attempt
Candidate(a) ==
    [sig             |-> <<"sig", a.domainName, a.domainVersion, a.chainId, a.value>>,
     orderHash       |-> a.value.orderHash,
     tier            |-> a.value.tier,
     domainName      |-> a.domainName,
     domainVersion   |-> a.domainVersion,
     chainId         |-> a.chainId,
     includeTokenURI |-> a.includeTokenURI]

\* the candidates pushed by a run of attempts: the successful ones, in order
RECURSIVE Pushed(_)
Pushed(as) ==
    IF as = <<>> THEN <<>>
    ELSE IF Head(as).ok THEN <<Candidate(Head(as))>> \o Pushed(Tail(as))
    ELSE Pushed(Tail(as))

\* if (!candidates.length) ... return withCors({ candidates, buyer, skuId })
SignerResponse(cands, b, sku) ==
    IF Len(cands) = 0 THEN withCors(ErrorBody("no_signature_candidates"), 500)
    ELSE withCors(CandidatesBody(cands, b, sku), 200)

----------------------------------------------------------------------------
(* The inputs of an invocation *)

Hex40(c, d) == [i \in 1..40 |-> IF i % 2 = 1 THEN c ELSE d]

\* the wallet of the caller and another wallet, the store contract and
\* another contract, in lower case
WalletA == <<"0", "x">> \o Hex40("a", "b")
WalletB == <<"0", "x">> \o Hex40("c", "d")
StoreContract == <<"0", "x">> \o Hex40("e", "f")
OtherContract == <<"0", "x">> \o Hex40("f", "1")

Methods == {"POST", "GET", "OPTIONS"}

\* the required variables SIGNER_PK, CONTRACT_ADDR, RPC_URL, STORE_ADDR: all
\* set, one missing, or all set with a key new ethers.Wallet rejects
RequiredEnv == {"set", "missing", "badkey"}

\* `to`: absent, empty, too short, mixed case with a wrong checksum, and the
\* caller's wallet in lower case and in checksum spelling
ToValues ==
    {Undef, Str(<<>>), Str(<<"0", "x", "1", "2">>), Str(<<"0", "x">> \o Hex40("a", "B")),
     Str(WalletA), Str(getChecksumAddress(WalletA))}

TxHashValues == {Undef, Str(<<>>), Str(<<"0", "x", "t", "1">>)}

OrderIdValues == {Undef, Str(<<>>), Str(<<"o", "1">>)}

TierValues == {Undef, Num(0), Num(2), Str(<<"7">>), Str(<<"x">>)}

TokenURIValues == {Undef, Str(<<>>), Str(<<"u">>)}

\* JSON.parse(event.body || '{}'), destructured
Bodies ==
    [parsed : {TRUE}, orderId : OrderIdValues, txHash : TxHashValues,
     to : ToValues, tier : TierValues, tokenURI : TokenURIValues]

\* a body JSON.parse throws on
MalformedBody ==
    [parsed |-> FALSE, orderId |-> Undef, txHash |-> Undef, to |-> Undef,
     tier |-> Undef, tokenURI |-> Undef]

\* no body read yet
NoBody == MalformedBody

SkuIds == (1..MaxSku) \cup {256}

\* the logs a receipt may carry; ethers gives addresses in checksum spelling
Log(address, event, b, sku) ==
    [address |-> getChecksumAddress(address), event |-> event,
     buyer |-> getChecksumAddress(b), skuId |-> sku]

LogSet ==
    {Log(StoreContract, "Purchased", WalletA, sku) : sku \in SkuIds}
    \cup {Log(StoreContract, "Purchased", WalletB, 1),
          Log(StoreContract, "Transfer", WalletA, 0),
          Log(OtherContract, "Purchased", WalletA, 1)}

\* what getTransactionReceipt resolves to: null, a reverted transaction, or
\* a successful one with its logs
Receipts ==
    {NullReceipt, [exists |-> TRUE, status |-> 0, logs |-> <<>>]}
    \cup {[exists |-> TRUE, status |-> 1, logs |-> ls] :
             ls \in UNION {[1..n -> LogSet] : n \in 0..MaxLogs}}

\* STORE_ADDR as configured: lower case or checksum spelling
StoreAddrValues == {Str(StoreContract), Str(getChecksumAddress(StoreContract))}

\* TIER_OFFSET and MIN_TIER: unset or the text of an integer
TierOffsetValues == {Undef, Str(<<"2">>), Str(<<"-", "1">>)}

MinTierValues == {Undef, Str(<<"3">>)}

DomainNameValues == {Undef, Str(<<" ", "D", " ">>)}

DomainVersionValues ==
    {Undef, Str(<<" ">>), Str(<<" ", "2", " ">>), Str(<<"3">>)}

\* how nft.name() settles
NameResults == {[throws |-> TRUE, name |-> <<>>], [throws |-> FALSE, name |-> <<"N">>]}

DefaultTokenName == <<"D", "r", "e", "a", "m", "P", "l", "a", "y">>

\* how provider.getNetwork() settles
NetworkResults ==
    {[throws |-> TRUE, chainId |-> 0], [throws |-> FALSE, chainId |-> 137]}

NoConfig ==
    [required |-> "unread", STORE_ADDR |-> Undef, TIER_OFFSET |-> Undef,
     MIN_TIER |-> Undef, DOMAIN_NAME |-> Undef, DOMAIN_VERSION |-> Undef]

----------------------------------------------------------------------------
(* The invocation *)

Init ==
    /\ pc = "idle"
    /\ method = ""
    /\ body = NoBody
    /\ cfg = NoConfig
    /\ receipt = NoReceipt
    /\ buyer = Null
    /\ skuId = Null
    /\ tier = Undef
    /\ orderId = Undef
    /\ tokenName = DefaultTokenName
    /\ versions = <<>>
    /\ layouts = <<>>
    /\ attempts = <<>>
    /\ netCalls = <<>>
    /\ response = NoResponse

\* return withCors(...)
Return(r) ==
    /\ pc' = "done"
    /\ response' = r

\* the catch at the request boundary
ServerError == withCors(ErrorBody("server_error"), 500)

\* const nft = ...; try { tokenName = await nft.name() }: the call is sent
CallName ==
    /\ pc' = "name"
    /\ netCalls' = Append(netCalls, "name")
    /\ response' = response

\* if (!orderId) return ...; otherwise on to the domain data
CheckOrderId(oid) ==
    IF ~Truthy(oid)
    THEN Return(withCors(ErrorBody("Provide orderId or txHash"), 400))
         /\ netCalls' = netCalls
    ELSE CallName

\* the handler from its entry to its first call to the chain node
Invoke ==
    /\ pc = "idle"
    /\ UNCHANGED <<receipt, buyer, skuId, tokenName, versions, layouts, attempts>>
    /\ \E m \in Methods :
        /\ method' = m
        /\ IF m = "OPTIONS"
           THEN /\ Return(withCors(PreflightBody, 200))
                /\ UNCHANGED <<body, cfg, tier, orderId, netCalls>>
           ELSE IF m # "POST"
           THEN /\ Return(withCors(ErrorBody("Method not allowed"), 405))
                /\ UNCHANGED <<body, cfg, tier, orderId, netCalls>>
           ELSE \E env \in RequiredEnv :
                /\ cfg' = [cfg EXCEPT !.required = env]
                /\ IF env = "missing"
                   THEN /\ Return(withCors(ErrorBody("Missing env"), 500))
                        /\ UNCHANGED <<body, tier, orderId, netCalls>>
                   ELSE IF env = "badkey"
                   THEN /\ Return(ServerError)
                        /\ UNCHANGED <<body, tier, orderId, netCalls>>
                   ELSE \E b \in Bodies \cup {MalformedBody} :
                        /\ body' = b
                        /\ tier' = b.tier
                        /\ IF ~b.parsed
                           THEN /\ Return(ServerError)
                                /\ UNCHANGED <<orderId, netCalls>>
                           ELSE IF ~Truthy(b.to)
                           THEN /\ Return(withCors(ErrorBody("Invalid payload. Expect {to,...}"), 400))
                                /\ orderId' = b.orderId
                                /\ netCalls' = netCalls
                           ELSE IF ~isAddress(b.to)
                           THEN /\ Return(withCors(ErrorBody("Invalid address"), 400))
                                /\ orderId' = b.orderId
                                /\ netCalls' = netCalls
                           ELSE IF Truthy(b.txHash)
                           THEN /\ pc' = "receipt"
                                /\ netCalls' = Append(netCalls, "getTransactionReceipt")
                                /\ orderId' = b.orderId
                                /\ response' = response
                           ELSE /\ orderId' = b.orderId
                                /\ CheckOrderId(b.orderId)

\* await provider.getTransactionReceipt(txHash) settles
ReceiptSettles ==
    /\ pc = "receipt"
    /\ UNCHANGED <<method, body, cfg, buyer, skuId, tier, orderId, tokenName,
                   versions, layouts, attempts, netCalls>>
    /\ \/ /\ Return(ServerError)
          /\ receipt' = receipt
       \/ \E r \in Receipts :
          /\ receipt' = r
          /\ pc' = "verify"
          /\ response' = response

\* the rest of the if (txHash) block, and on to the call of nft.name()
Verify ==
    /\ pc = "verify"
    /\ UNCHANGED <<method, body, tokenName, versions, layouts, attempts>>
    /\ \E store \in StoreAddrValues :
        LET err == Verification(receipt, store.s, body.to.s)
            i   == FindPurchased(receipt.logs, store.s, 1)
        IN
        IF err = "Invalid or failed transaction"
        THEN /\ Return(withCors(ErrorBody(err), 400))
             /\ UNCHANGED <<cfg, receipt, buyer, skuId, tier, orderId, netCalls>>
        ELSE IF err = "No Purchased event found for this tx"
        THEN /\ Return(withCors(ErrorBody(err), 400))
             /\ cfg' = [cfg EXCEPT !.STORE_ADDR = store]
             /\ UNCHANGED <<receipt, buyer, skuId, tier, orderId, netCalls>>
        ELSE /\ buyer' = Str(receipt.logs[i].buyer)
             /\ skuId' = Num(receipt.logs[i].skuId)
             /\ IF err # ""
                THEN /\ Return(withCors(MismatchBody(err, buyer'), 400))
                     /\ cfg' = [cfg EXCEPT !.STORE_ADDR = store]
                     /\ UNCHANGED <<receipt, tier, orderId, netCalls>>
                ELSE \E off \in TierOffsetValues, min \in MinTierValues :
                     /\ cfg' = [cfg EXCEPT !.STORE_ADDR = store,
                                           !.TIER_OFFSET = off, !.MIN_TIER = min]
                     /\ tier' = ResolveTier(tier, skuId', off, min)
                     /\ orderId' = VerifiedOrderId(body.txHash, orderId)
                     /\ receipt' = NoReceipt
                     /\ CheckOrderId(orderId')

\* try { tokenName = await nft.name(); } catch (_) {}, then the call of
\* provider.getNetwork()
NameSettles ==
    /\ pc = "name"
    /\ UNCHANGED <<method, body, cfg, receipt, buyer, skuId, tier, orderId,
                   versions, layouts, attempts, response>>
    /\ \E res \in NameResults :
        /\ tokenName' = IF res.throws THEN tokenName ELSE res.name
        /\ pc' = "network"
        /\ netCalls' = Append(netCalls, "getNetwork")

\* await provider.getNetwork() settles; the domain, the candidate versions
\* and layouts, the signing loops and the answer
NetworkSettles ==
    /\ pc = "network"
    /\ UNCHANGED <<method, body, receipt, buyer, skuId, tier, orderId, tokenName, netCalls>>
    /\ \E res \in NetworkResults :
        IF res.throws
        THEN /\ Return(ServerError)
             /\ UNCHANGED <<cfg, versions, layouts, attempts>>
        ELSE \E dn \in DomainNameValues, dv \in DomainVersionValues :
             LET domainName == DomainName(dn, Str(tokenName))
                 orderHash  == id(String(orderId))
             IN
             /\ cfg' = [cfg EXCEPT !.DOMAIN_NAME = dn, !.DOMAIN_VERSION = dv]
             /\ versions' = CandidateVersions(dv)
             /\ layouts' = CandidateLayouts(body.tokenURI)
             /\ attempts' = VersionLoop(versions', layouts', domainName, res.chainId,
                                        body.to.s, tier, orderHash, body.tokenURI)
             /\ Return(SignerResponse(Pushed(attempts'), buyer, skuId))

\* the invocation is over; the next one starts from nothing
NextInvocation ==
    /\ pc = "done"
    /\ pc' = "idle"
    /\ method' = ""
    /\ body' = NoBody
    /\ cfg' = NoConfig
    /\ receipt' = NoReceipt
    /\ buyer' = Null
    /\ skuId' = Null
    /\ tier' = Undef
    /\ orderId' = Undef
    /\ tokenName' = DefaultTokenName
    /\ versions' = <<>>
    /\ layouts' = <<>>
    /\ attempts' = <<>>
    /\ netCalls' = <<>>
    /\ response' = NoResponse

Next ==
    \/ Invoke
    \/ ReceiptSettles
    \/ Verify
    \/ NameSettles
    \/ NetworkSettles
    \/ NextInvocation

Spec == Init /\ [][Next]_vars

----------------------------------------------------------------------------
(* Vocabulary of the properties *)

Range(seq) == {seq[k] : k \in 1..Len(seq)}

Responded == pc = "done"

\* the handler read the fields of the request
RequestRead == body.parsed

SuppliesTxHash == RequestRead /\ Truthy(body.txHash)

\* `to` is one of the well-formed spellings of an address
WellFormedTo == body.to \in {Str(WalletA), Str(getChecksumAddress(WalletA))}

NoSigning == attempts = <<>> /\ response.body.candidates = <<>>

SameAddress(a, b) ==
    /\ Len(a) = Len(b)
    /\ \A k \in 1..Len(a) : LowerChar(a[k]) = LowerChar(b[k])

\* a log of the store contract that decodes as Purchased
StorePurchase(lg, storeAddr) == SameAddress(lg.address, storeAddr) /\ lg.event = "Purchased"

\* the three conditions on a receipt: it exists with success status, a log of
\* the store decodes as Purchased, and the buyer of that event is `to`
ReceiptProvesPurchase(r, storeAddr, to) ==
    /\ r.exists
    /\ r.status = 1
    /\ \E k \in 1..Len(r.logs) :
        /\ StorePurchase(r.logs[k], storeAddr)
        /\ SameAddress(r.logs[k].buyer, to)

\* the purchase was verified: buyer is only ever set from the parsed event
PurchaseVerified == buyer.t = "str" /\ SameAddress(buyer.s, body.to.s)

----------------------------------------------------------------------------
(* C1: purchase verification guards signing *)

\* C1 as stated: a request that supplies a txHash is signed for only when the
\* purchase was verified, and in every other case the handler ends with a 400
\* error response and no signing attempt.
C1_EveryOtherCaseIs400 ==
    (Responded /\ SuppliesTxHash) =>
        \/ PurchaseVerified
        \/ response.statusCode = 400 /\ NoSigning

C1_Step ==
    /\ (pc = "verify" /\ pc' # "done") =>
           ReceiptProvesPurchase(receipt, cfg'.STORE_ADDR.s, body.to.s)
    /\ (pc = "verify" /\ pc' = "done") =>
           response'.statusCode = 400 /\ attempts' = <<>> /\ response'.body.candidates = <<>>
    /\ (pc = "verify" /\ buyer' # buyer) =>
           \E k \in 1..Len(receipt.logs) :
               /\ StorePurchase(receipt.logs[k], cfg'.STORE_ADDR.s)
               /\ buyer' = Str(receipt.logs[k].buyer)
               /\ receipt.exists /\ receipt.status = 1
    /\ pc # "verify" => buyer' = buyer \/ buyer' = Null
    /\ (body'.parsed /\ Truthy(body'.txHash)
            /\ (attempts' # <<>> \/ response'.body.candidates # <<>>)) =>
           /\ buyer'.t = "str"
           /\ SameAddress(buyer'.s, body'.to.s)
           /\ "getTransactionReceipt" \in Range(netCalls')
    /\ (body'.parsed /\ Truthy(body'.txHash) /\ pc' = "done"
            /\ ~(buyer'.t = "str" /\ SameAddress(buyer'.s, body'.to.s))) =>
           /\ response'.statusCode \in {400, 500}
           /\ response'.body.error # ""

\* C1, amended: a request that supplies a txHash is signed for only after
\* the fetched receipt exists with success status, a log of the store address
\* decodes as Purchased and that event's buyer equals `to` case-insensitively;
\* a receipt that fails one of the three ends the handler with a 400 error and
\* no signing attempt, and every other unverified ending (a thrown receipt
\* fetch) is an error response with no signing attempt either.
C1_SigningOnlyAfterVerification == [][C1_Step]_vars

\* a verified purchase whose `to` is spelled in lower case was signed for
C1_Witness ==
    /\ Responded /\ SuppliesTxHash /\ PurchaseVerified
    /\ body.to = Str(WalletA)
    /\ response.statusCode = 200
    /\ response.body.candidates # <<>>

----------------------------------------------------------------------------
(* C2: the address check comes before every call to the chain node *)

\* C2: a POST request whose `to` is missing or is not a well-formed address
\* is answered with status 400, and the handler has made no call to the
\* chain node (no receipt fetch, no name() read, no network id read).  The
\* requests are those whose fields the handler reads: the configuration is
\* complete and the body is JSON.
C2_InvalidToRejectedBeforeNetwork ==
    (method = "POST" /\ RequestRead /\ ~WellFormedTo) =>
        /\ Responded
        /\ response.statusCode = 400
        /\ netCalls = <<>>
        /\ NoSigning

\* a mixed-case `to` with a wrong checksum was rejected, although the request
\* named a txHash to fetch
C2_Witness ==
    /\ Responded /\ RequestRead
    /\ body.to = Str(<<"0", "x">> \o Hex40("a", "B"))
    /\ Truthy(body.txHash)
    /\ response = withCors(ErrorBody("Invalid address"), 400)

----------------------------------------------------------------------------
(* C3: the errors of purchase verification *)

\* the handler returned from inside the if (txHash) block
RejectedByVerification == Responded /\ receipt # NoReceipt

ReceiptUnusable == ~receipt.exists \/ receipt.status # 1

NoStorePurchase ==
    \A k \in 1..Len(receipt.logs) : ~StorePurchase(receipt.logs[k], cfg.STORE_ADDR.s)

\* the first log of the store that decodes as Purchased
FirstStorePurchase ==
    LET k == CHOOSE k \in 1..Len(receipt.logs) :
                 /\ StorePurchase(receipt.logs[k], cfg.STORE_ADDR.s)
                 /\ \A j \in 1..(k - 1) : ~StorePurchase(receipt.logs[j], cfg.STORE_ADDR.s)
    IN  receipt.logs[k]

\* C3 as stated: the four failures are told apart in the response; in
\* particular the error reported for a receipt with non-success status is not
\* the error reported for an absent receipt.
C3_FailedDistinctFromNotFound ==
    (RejectedByVerification /\ receipt.exists /\ receipt.status # 1) =>
        response.body.error # Verification(NullReceipt, <<>>, <<>>)

\* C3, amended: every failure of purchase verification is a 400 response, and
\* three outcomes are told apart: an absent receipt and a receipt with
\* non-success status share one error ("Invalid or failed transaction"), a
\* successful receipt with no log of the store address (compared
\* case-insensitively) that decodes as Purchased has its own, and a decoded
\* buyer different from `to` has its own.
C3_VerificationErrors ==
    RejectedByVerification =>
        /\ response.statusCode = 400
        /\ NoSigning
        /\ ReceiptUnusable <=> response.body.error = "Invalid or failed transaction"
        /\ (~ReceiptUnusable /\ NoStorePurchase)
               <=> response.body.error = "No Purchased event found for this tx"
        /\ (~ReceiptUnusable /\ ~NoStorePurchase
                /\ ~SameAddress(FirstStorePurchase.buyer, body.to.s))
               <=> response.body.error = "Wallet mismatch: tx buyer != connected wallet"
        /\ response.body.error \in {"Invalid or failed transaction",
                                    "No Purchased event found for this tx",
                                    "Wallet mismatch: tx buyer != connected wallet"}

\* a receipt whose store log names another buyer, found behind a log of
\* another contract, was rejected as a wallet mismatch
C3_Witness ==
    /\ RejectedByVerification
    /\ Len(receipt.logs) = 2
    /\ ~SameAddress(receipt.logs[1].address, StoreContract)
    /\ receipt.logs[2].buyer = getChecksumAddress(WalletB)
    /\ cfg.STORE_ADDR = Str(StoreContract)
    /\ response.body.error = "Wallet mismatch: tx buyer != connected wallet"

----------------------------------------------------------------------------
(* C4: the tier of a verified purchase *)

\* the purchase was verified and the tier mapping has run
TierResolved == SuppliesTxHash /\ "name" \in Range(netCalls)

Max(a, b) == IF a >= b THEN a ELSE b

IntegerOr(v, default) == IF Truthy(v) THEN StringToNumber(v.s).n ELSE default

HintBase ==
    LET hint == Number(body.tier) IN
    IF hint.t = "num" /\ hint.n > 0 THEN hint.n ELSE skuId.n

\* C4: when a txHash was verified the resolved tier is
\* max(minTier, base + offset): base is the caller's hint if it parses to a
\* finite number above 0 and the event's skuId otherwise, offset defaults to
\* 0 and minTier to 1; (skuId 5) gives 5, (skuId 5, offset 2) gives 7 and
\* (skuId 1, minTier 3) gives 3.
C4_ResolvedTier ==
    /\ TierResolved =>
           tier = Num(Max(IntegerOr(cfg.MIN_TIER, 1), HintBase + IntegerOr(cfg.TIER_OFFSET, 0)))
    /\ ResolveTier(Undef, Num(5), Str(<<"0">>), Str(<<"1">>)) = Num(5)
    /\ ResolveTier(Undef, Num(5), Str(<<"2">>), Undef) = Num(7)
    /\ ResolveTier(Undef, Num(1), Str(<<"0">>), Str(<<"3">>)) = Num(3)

\* a verified purchase of sku 1 with a useless hint and minimum tier 3 was
\* clamped to 3
C4_Witness ==
    /\ TierResolved /\ Responded
    /\ body.tier = Str(<<"x">>)
    /\ skuId = Num(1)
    /\ cfg.MIN_TIER = Str(<<"3">>)
    /\ cfg.TIER_OFFSET = Str(<<"-", "1">>)
    /\ tier = Num(3)
    /\ response.statusCode = 200

----------------------------------------------------------------------------
(* C5: the candidate signer *)

\* the signing loops have run
SignerRan == Responded /\ versions # <<>>

\* the combination visited k-th: versions outside, layouts inside
VisitedVersion(k) == versions[((k - 1) \div Len(layouts)) + 1]

VisitedLayout(k) == layouts[((k - 1) % Len(layouts)) + 1]

Succeeded == {k \in 1..Len(attempts) : attempts[k].ok}

\* the j-th successful attempt
NthSuccess(j) ==
    CHOOSE k \in Succeeded : Cardinality({i \in Succeeded : i <= k}) = j

\* C5: every (version, layout) combination is attempted, versions in the
\* outer loop and layouts in the inner one, whatever succeeded or failed
\* before; the candidates are the successful attempts, in visiting order,
\* each tagged with its combination; no candidate at all is the
\* no_signature_candidates error with status 500, otherwise the response is
\* the success carrying the list.
C5_AllCombinationsAttempted ==
    SignerRan =>
        /\ Len(attempts) = Len(versions) * Len(layouts)
        /\ \A k \in 1..Len(attempts) :
               /\ attempts[k].domainVersion = VisitedVersion(k)
               /\ attempts[k].includeTokenURI = VisitedLayout(k)
        /\ IF Succeeded = {}
           THEN response = withCors(ErrorBody("no_signature_candidates"), 500)
           ELSE /\ response.statusCode = 200
                /\ response.body.error = ""
                /\ Len(response.body.candidates) = Cardinality(Succeeded)
                /\ \A j \in 1..Len(response.body.candidates) :
                       LET c == response.body.candidates[j]
                           a == attempts[NthSuccess(j)]
                       IN  /\ c.domainVersion = a.domainVersion
                           /\ c.includeTokenURI = a.includeTokenURI
                           /\ c.tier = a.value.tier
                           /\ c.orderHash = a.value.orderHash

\* four versions and two layouts of which the second always fails: four
\* candidates out of eight attempts
C5_Witness ==
    /\ SignerRan
    /\ Len(versions) = 4
    /\ Len(attempts) = 8
    /\ Succeeded = {1, 3, 5, 7}
    /\ Len(response.body.candidates) = 4

\* every combination failed: the request ends with no_signature_candidates
C5_WitnessAllFail ==
    /\ SignerRan
    /\ Len(attempts) = 6
    /\ Succeeded = {}
    /\ response.statusCode = 500

----------------------------------------------------------------------------
(* C6: the order identifier *)

\* the text of the identifier a request is expected to be signed for
IdentifierText ==
    IF Truthy(body.txHash) THEN body.txHash.s
    ELSE IF body.orderId.t = "num" THEN NatToString(body.orderId.n)
    ELSE body.orderId.s

\* C6: the identifier hashed into orderHash is the txHash whenever one was
\* supplied and verified, whatever orderId came with it, and the caller's
\* orderId otherwise; every attempt and every candidate carries the digest of
\* that identifier.  A request with neither (a POST whose fields the handler
\* reads) is answered with status 400 and nothing is signed.
C6_OrderIdentifier ==
    /\ \A k \in 1..Len(attempts) :
           attempts[k].value.orderHash = <<"keccak256", IdentifierText>>
    /\ \A j \in 1..Len(response.body.candidates) :
           response.body.candidates[j].orderHash = <<"keccak256", IdentifierText>>
    /\ (Responded /\ RequestRead /\ method = "POST"
            /\ ~Truthy(body.txHash) /\ ~Truthy(body.orderId)) =>
           response.statusCode = 400 /\ NoSigning

\* a verified txHash replaced the orderId the caller also sent
C6_Witness ==
    /\ Responded /\ SuppliesTxHash
    /\ body.orderId = Str(<<"o", "1">>)
    /\ response.body.candidates # <<>>
    /\ response.body.candidates[1].orderHash = <<"keccak256", body.txHash.s>>

----------------------------------------------------------------------------
(* C7: the type layouts *)

Extended == TRUE

Short == FALSE

\* C7 as stated: a request without a tokenURI is never signed with the
\* extended layout.
C7_ShortOnlyWithoutTokenURI ==
    (RequestRead /\ body.tokenURI = Undef) =>
        \A k \in 1..Len(attempts) : attempts[k].includeTokenURI = Short

\* C7, amended: with a non-empty string tokenURI the layouts attempted are
\* [extended, short] in that order; without one they are [short, extended]
\* in that order, so the extended layout is attempted as well, after the
\* short one, for every candidate version.
C7_LayoutOrder ==
    SignerRan =>
        /\ layouts = IF body.tokenURI.t = "str" /\ body.tokenURI.s # <<>>
                     THEN <<Extended, Short>>
                     ELSE <<Short, Extended>>
        /\ \A k \in 1..Len(attempts) :
               attempts[k].includeTokenURI = layouts[2 - (k % 2)]
        /\ Len(attempts) = 2 * Len(versions)

\* a request without tokenURI whose second attempt used the extended layout
C7_Witness ==
    /\ SignerRan
    /\ body.tokenURI = Undef
    /\ attempts[1].includeTokenURI = Short
    /\ attempts[2].includeTokenURI = Extended
    /\ response.statusCode = 200

----------------------------------------------------------------------------
(* C8: the range of the tier *)

IsUint8(v) == v.t = "num" /\ v.n >= 0 /\ v.n <= 255

\* C8 as stated: the tier that tier resolution produces, and that goes into
\* the ClaimValue handed to the signer, is an integer of 0..255.
C8_TierIsUint8 ==
    /\ TierResolved => IsUint8(tier)
    /\ SuppliesTxHash => \A k \in 1..Len(attempts) : IsUint8(attempts[k].value.tier)

----------------------------------------------------------------------------
(* C9: the candidate domain versions *)

Fallbacks == <<<<"1">>, <<"0">>, <<"2">>>>

Override == IF Truthy(cfg.DOMAIN_VERSION) THEN Trim(cfg.DOMAIN_VERSION.s) ELSE <<>>

\* C9: the candidate versions are the trimmed override, when it is set and
\* not blank, then "1", "0", "2", without the second occurrence of a
\* duplicate: no version twice, three entries when the override is unset,
\* blank or one of the fallbacks, four entries with the override first
\* otherwise.
C9_CandidateVersions ==
    SignerRan =>
        /\ \A i, j \in 1..Len(versions) : versions[i] = versions[j] => i = j
        /\ versions = IF Override = <<>> THEN Fallbacks
                      ELSE <<Override>> \o SelectSeq(Fallbacks, LAMBDA x : x # Override)
        /\ Len(versions) = IF Override = <<>> \/ Override \in Range(Fallbacks) THEN 3 ELSE 4

\* the override " 2 " is trimmed and moves "2" to the front
C9_Witness ==
    /\ SignerRan
    /\ cfg.DOMAIN_VERSION = Str(<<" ", "2", " ">>)
    /\ versions = <<<<"2">>, <<"1">>, <<"0">>>>

----------------------------------------------------------------------------
(* C10: the tier of a request without txHash *)

NumericTier == body.tier.t = "num" \/ (body.tier.t = "str" /\ Number(body.tier).t = "num")

\* C10 as stated: without a txHash the tier is the caller's own, and a
\* request whose tier is absent or not numeric is answered with status 400
\* and nothing is signed (an answer forced by a chain call that throws is
\* left aside).
C10_TierValidated ==
    (Responded /\ RequestRead /\ WellFormedTo /\ ~Truthy(body.txHash)
         /\ ~NumericTier /\ response # ServerError) =>
        /\ response.statusCode = 400
        /\ attempts = <<>>

====
